---- MODULE Spec2Model ----
(***************************************************************************)
(* Model of the chat client's Transcript Controller (the Chat component,   *)
(* src/unnamed/part_000): the message list, the draft, the in-flight       *)
(* submissions with their closures, the startup load and the detached      *)
(* persistence writes against the remote file store.                       *)
(*                                                                         *)
(* Every handler runs to its next await as one atomic step (single UI      *)
(* thread).  A handler that resumes after an await still reads the         *)
(* component state it captured when it was invoked (its closure), which is *)
(* kept per submission.  Texts are sequences of one-character strings.     *)
(***************************************************************************)
EXTENDS Integers, Sequences, FiniteSets, TLC

(* ------------------------------ bounds -------------------------------- *)
\* submissions whose handler gets past the first guard, per session
MaxSubs == 1
\* the same, in the sessions of SpecRace
MaxRace == 2
\* chunks one stream delivers at most
MaxChunks == 2
\* last value of the millisecond clock
MaxClock == 1
\* persistence writes in flight at the same time
MaxInFlight == 2
\* MediaRecorder objects one session creates at most
MaxRecorders == 2
\* presses of the sign-in button
MaxAttempts == 2

(* ------------------------------ values -------------------------------- *)
Hello == <<"H", "e", "l", "l", "o">>
EmptyText == <<>>
\* what the user can have in the text box
Drafts == {EmptyText, <<" ">>, Hello}

\* the fixed sentence of the catch block (part_000:315), shortened
Apology == <<"S", "o", "r", "r", "y">>

\* a File: its name as dot-separated segments, its MIME type as major/minor
NoFile == [name |-> <<>>, type |-> <<>>]
PhotoPng == [name |-> <<"photo", "png">>, type |-> <<"image", "png">>]
NotesTxt == [name |-> <<"notes", "TXT">>, type |-> <<"text", "plain">>]
Files == {PhotoPng, NotesTxt}
ReportDocx == [name |-> <<"report", "docx">>, type |-> <<"application", "docx">>]
PaperPdf == [name |-> <<"paper", "PDF">>, type |-> <<"application", "pdf">>]
ArchiveZip == [name |-> <<"archive", "zip">>, type |-> <<"application", "zip">>]
\* the same, with the other kinds of file the picker can return
AllFiles == Files \cup {ReportDocx, PaperPdf, ArchiveZip}

\* what the text extraction of a docx or txt file can return
Budget == <<"B", "5">>
Extracts == {EmptyText, Budget}

Modes == {"search", "claude"}

\* a streamed part: a text fragment, or a part that carries no text
NoTextPart == [hasText |-> FALSE, text |-> <<>>]
Letters == <<"a", "b", "c", "d">>
\* what the k-th part of a stream can be
Parts(k) == {NoTextPart, [hasText |-> TRUE, text |-> <<Letters[k]>>]}

VARIABLES
    messages,      \* useState<Message[]>            part_000:17
    input,         \* useState('')                   part_000:18
    selectedFile,  \* useState<File | null>          part_000:20
    isLoading,     \* useState(false)                part_000:21
    mode,          \* useState('search')             part_000:23
    puter,         \* window.puter is defined
    now,           \* Date.now()
    subs,          \* the handleSubmit invocations and their closures
    load,          \* loadFromCloud: its position and the text it fetched
    store,         \* the remote file global_ai_chats_<user>.json
    writes,        \* puter.fs.write calls not yet applied
    lastOp,        \* history: the handler that ran last and what it saved
    voice,         \* isRecording, mediaRecorderRef and the recorders  part_000:19, 100
    app            \* App's user, localStorage, and the Auth component  App.tsx:6

vars == <<messages, input, selectedFile, isLoading, mode, puter, now, subs,
          load, store, writes, lastOp, voice, app>>

(* ------------------------------ helpers ------------------------------- *)
\* Number.toString(): the decimal string of n, kept as a tagged value
NumToString(n) == <<"str", n>>

IsSpace(c) == c = " "

RECURSIVE TrimStart(_)
TrimStart(t) ==
    IF t = <<>> THEN <<>>
    ELSE IF IsSpace(Head(t)) THEN TrimStart(Tail(t)) ELSE t

RECURSIVE TrimEnd(_)
TrimEnd(t) ==
    IF t = <<>> THEN <<>>
    ELSE IF IsSpace(t[Len(t)]) THEN TrimEnd(SubSeq(t, 1, Len(t) - 1)) ELSE t

Trim_Mut(t) == t

\* String.prototype.trim
Trim(t) == TrimEnd(TrimStart(t))

\* JavaScript truthiness of a string
Truthy(t) == t # <<>>

\* msg.isThinking as the renderer reads it ("true", "false" or "undefined")
Pending(m) == m.isThinking = "true"

\* JSON.stringify of a message array / JSON.parse of a stored text
Stringify(msgs) == [kind |-> "array", items |-> msgs]
Absent == [kind |-> "absent"]
Garbage == [kind |-> "garbage"]
NotArray == [kind |-> "object"]

\* JSON.parse(text) followed by the test parsed && Array.isArray(parsed)
ParsesToArray(text) == text.kind = "array"
Parsed(text) == text.items

\* String.prototype.toLowerCase on the extensions in use
ToLower(seg) ==
    CASE seg = "TXT" -> "txt"
      [] seg = "PNG" -> "png"
      [] seg = "PDF" -> "pdf"
      [] seg = "DOCX" -> "docx"
      [] OTHER -> seg

\* selectedFile.name.split('.').pop()?.toLowerCase()        part_000:196
Ext(f) == ToLower(f.name[Len(f.name)])

\* selectedFile.type.startsWith('image/')
IsImage(f) == Len(f.type) > 0 /\ f.type[1] = "image"

\* the branches of handleSubmit that await a file read      part_000:198-210
Ingests(f) == Ext(f) = "pdf" \/ IsImage(f) \/ Ext(f) = "docx" \/ Ext(f) = "txt"

\* part?.text || ''                                         part_000:245
PartText(p) == IF p.hasText /\ Truthy(p.text) THEN p.text ELSE <<>>

\* messages.filter(m => m.id !== id)                        part_000:73
FilterOut(msgs, id) == SelectSeq(msgs, LAMBDA m : m.id # id)

\* updatedMessages2.map(msg => msg.id === aiMessageId
\*     ? { ...msg, content: text, isThinking: false } : msg)   part_000:248-252
MapContent(msgs, id, text) ==
    [i \in DOMAIN msgs |->
        IF msgs[i].id = id
        THEN [msgs[i] EXCEPT !.content = text, !.isThinking = "false"]
        ELSE msgs[i]]

NoId == NumToString(-1)
NoAttachment == [name |-> <<>>, type |-> <<>>, url |-> ""]

\* the transcript an earlier session of the same user left in the store
PriorTranscript ==
    << [id |-> NumToString(-2), role |-> "ai", content |-> <<"b">>,
        file |-> NoAttachment, isThinking |-> "false"] >>

InitialStores == {Absent, Stringify(PriorTranscript)}
\* the same, with files that do not hold a message array
AllStores == InitialStores \cup {Garbage, NotArray}

NoMessage ==
    [id |-> NoId, role |-> "", content |-> <<>>, file |-> NoAttachment,
     isThinking |-> "undefined"]

\* fileToBase64: the data URL "data:<type>;base64,<bytes>", kept as its
\* comma-separated segments                                 part_000:161-168
FileToBase64(f) == << <<"data:", f.type, ";base64">>, <<"base64 of", f.name>> >>

\* base64Url.split(',')                                      part_000:200
SplitComma(url) == url

\* let fileDataForApi: ... | undefined                       part_000:186
NoPayload == [data |-> <<>>, mimeType |-> <<>>]

\* fileDataForApi = { data: base64Data, mimeType }           part_000:199-204
FileDataForApi(f) == [data |-> SplitComma(FileToBase64(f))[2], mimeType |-> f.type]

DocumentContent == "Document Content:\n"
UserQuery == "\n\nUser Query: "
AnalyzeThis == <<"Analyze this document.">>

Prompt_Mut(content, extractedText) ==
    IF Truthy(extractedText)
    THEN <<DocumentContent>> \o extractedText \o <<UserQuery>> \o content
    ELSE content

\* the prompt of handleSubmit                                part_000:228-231
Prompt(content, extractedText) ==
    IF Truthy(extractedText)
    THEN <<DocumentContent>> \o extractedText \o <<UserQuery>>
         \o (IF Truthy(content) THEN content ELSE AnalyzeThis)
    ELSE content

NoRequest == [api |-> "", model |-> "", prompt |-> <<>>, payload |-> NoPayload]

\* the call the branch of the mode makes                     part_000:235-302
StrategyCall(m, prompt, fileDataForApi) ==
    IF m = "claude"
    THEN [api |-> "puter.ai.chat", model |-> "claude-sonnet-4.5",
          prompt |-> prompt, payload |-> NoPayload]
    ELSE IF m = "search"
    THEN [api |-> "puter.ai.chat", model |-> "openai/gpt-5.2-chat",
          prompt |-> prompt, payload |-> NoPayload]
    ELSE [api |-> "generateChatResponse", model |-> "",
          prompt |-> prompt, payload |-> fileDataForApi]

IdleSub ==
    [pc |-> "idle", messages0 |-> <<>>, userMessage |-> NoMessage, file0 |-> NoFile,
     mode0 |-> "search", updatedMessages2 |-> <<>>, aiMessageId |-> NoId,
     text |-> <<>>, received |-> <<>>, fileDataForApi |-> NoPayload,
     extractedText |-> <<>>, request |-> NoRequest]
DoneSub == [IdleSub EXCEPT !.pc = "done"]
FailedSub == [IdleSub EXCEPT !.pc = "failed"]
AbortedSub == [IdleSub EXCEPT !.pc = "aborted"]

Op(name, s, id, saved, parts) ==
    [op |-> name, sub |-> s, id |-> id, saved |-> saved, parts |-> parts]

Subs == DOMAIN subs

\* the user names puter.auth.signIn can return
Users == {"alice", "bob"}
\* null: no user, no item in localStorage, no username in the result
NoUser == ""

\* App and Auth: the user state, the item global_ai_current_user of
\* localStorage, the error of the Auth component, the signIn calls awaited by
\* the mounted Auth component (pending) and by unmounted ones (orphans), and
\* as history the presses of the button and the attempts that failed
SignedOut ==
    [user |-> NoUser, stored |-> NoUser, error |-> "", pending |-> 0,
     orphans |-> 0, attempts |-> 0, failures |-> 0]

\* App after its mount effect has found the stored identity u  App.tsx:8-13
SignedIn(u) == [SignedOut EXCEPT !.user = u, !.stored = u]

\* the Chat component is mounted                             App.tsx:26-27
Mounted == app.user # NoUser

\* no recorder, no microphone request, nothing being transcribed
\* heard is the text of the last transcription and alert the text of the
\* last alert() of the voice handlers
IdleVoice ==
    [isRecording |-> FALSE, requests |-> 0, ref |-> 0, recorders |-> <<>>,
     transcribing |-> 0, heard |-> <<>>, alert |-> ""]
InFlight(s) == subs[s].pc \in {"ingest", "stream"}

(* ------------------------------- Init --------------------------------- *)
Init ==
    /\ messages = <<>>
    /\ input = <<>>
    /\ selectedFile = NoFile
    /\ isLoading = FALSE
    /\ mode = "search"
    /\ puter \in BOOLEAN
    /\ now = 0
    /\ subs = [s \in 1 .. MaxSubs |-> IdleSub]
    /\ store \in InitialStores
    \* the mount effect has run: the read is on its way when puter exists
    /\ load = [pc |-> IF puter THEN "reading" ELSE "done", text |-> Absent]
    /\ writes = <<>>
    /\ lastOp = Op("init", 0, NoId, <<>>, <<>>)
    /\ voice = IdleVoice
    /\ app = SignedIn("alice")

(* --------------------------- persistence ------------------------------ *)
\* saveToCloud(msgs): the write is issued only when puter exists  part_000:28-40
SaveToCloud(w, msgs) == IF puter THEN Append(w, Stringify(msgs)) ELSE w

\* room for k more writes in flight
Room(k) == puter => Len(writes) + k <= MaxInFlight

RemoveAt(seq, i) == SubSeq(seq, 1, i - 1) \o SubSeq(seq, i + 1, Len(seq))

\* the store applies a write; the awaiting saveToCloud resumes into finally
WriteApplied ==
    \E i \in DOMAIN writes :
        /\ store' = writes[i]
        /\ writes' = RemoveAt(writes, i)
        /\ UNCHANGED <<app, voice, lastOp, messages, input, selectedFile, isLoading, mode, puter,
                       now, subs, load>>

WriteFailed_Mut ==
    \E i \in DOMAIN writes :
        /\ writes' = RemoveAt(writes, i)
        /\ messages' = IF ParsesToArray(store) THEN Parsed(store) ELSE <<>>
        /\ UNCHANGED <<app, voice, lastOp, input, selectedFile, isLoading, mode, puter,
                       now, subs, load, store>>

\* the write rejects; saveToCloud logs it                    part_000:35-36
WriteFailed ==
    \E i \in DOMAIN writes :
        /\ writes' = RemoveAt(writes, i)
        /\ UNCHANGED <<app, voice, lastOp, messages, input, selectedFile, isLoading, mode, puter,
                       now, subs, load, store>>

(* ------------------------------- load --------------------------------- *)
\* puter.fs.read answers: with the stored text, or it throws (no file)
LoadRead ==
    /\ load.pc = "reading"
    /\ load' = IF store = Absent
               THEN [pc |-> "done", text |-> Absent]
               ELSE [pc |-> "fetched", text |-> store]
    /\ UNCHANGED <<app, voice, lastOp, messages, input, selectedFile, isLoading, mode, puter, now,
                   subs, store, writes>>

\* the read fails on the way                                 part_000:54-56
LoadFailed ==
    /\ load.pc = "reading"
    /\ load' = [pc |-> "done", text |-> Absent]
    /\ UNCHANGED <<app, voice, lastOp, messages, input, selectedFile, isLoading, mode, puter, now,
                   subs, store, writes>>

LoadDone_Mut ==
    /\ load.pc = "fetched"
    /\ messages' = IF ParsesToArray(load.text) THEN Parsed(load.text) ELSE <<>>
    /\ load' = [pc |-> "done", text |-> Absent]
    /\ lastOp' = Op("load_done", 0, NoId, <<>>, <<>>)
    /\ UNCHANGED <<app, voice, input, selectedFile, isLoading, mode, puter, now, subs,
                   store, writes>>

\* loadFromCloud resumes with the text                       part_000:48-52
LoadDone ==
    /\ load.pc = "fetched"
    /\ messages' = IF ParsesToArray(load.text) THEN Parsed(load.text) ELSE messages
    /\ load' = [pc |-> "done", text |-> Absent]
    /\ lastOp' = Op("load_done", 0, NoId, <<>>, <<>>)
    /\ UNCHANGED <<app, voice, input, selectedFile, isLoading, mode, puter, now, subs,
                   store, writes>>

(* ---------------------------- the draft ------------------------------- *)
\* textarea onChange                                         part_000:592
SetInput ==
    \E d \in Drafts :
        /\ d # input
        /\ input' = d
        /\ UNCHANGED <<app, voice, lastOp, messages, selectedFile, isLoading, mode, puter, now,
                       subs, load, store, writes>>

\* handleFileSelect, and the X button of the attachment     part_000:154-159, 563
SelectFile(F) ==
    \E f \in F \cup {NoFile} :
        /\ f # selectedFile
        /\ selectedFile' = f
        /\ UNCHANGED <<app, voice, lastOp, messages, input, isLoading, mode, puter, now, subs,
                       load, store, writes>>

SetSelectedFile == SelectFile(Files)

\* the same, over every kind of file
SetAnyFile == SelectFile(AllFiles)

\* the mode buttons, shown while the transcript is empty    part_000:383, 411-424
SetMode ==
    \E m \in Modes :
        /\ Len(messages) = 0
        /\ m # mode
        /\ mode' = m
        /\ UNCHANGED <<app, voice, lastOp, messages, input, selectedFile, isLoading, puter, now,
                       subs, load, store, writes>>

\* the values a call of Date.now() can return: the clock never runs back
Clock == now .. MaxClock

(* ------------------------------ submit -------------------------------- *)
\* the user message handleSubmit builds                      part_000:180-194
UserMessage(t, text, f) ==
    [id |-> NumToString(t), role |-> "user", content |-> text,
     file |-> IF f = NoFile THEN NoAttachment
              ELSE [name |-> f.name, type |-> f.type, url |-> "blob"],
     isThinking |-> "undefined"]

Placeholder_Mut(id) ==
    [id |-> id, role |-> "ai", content |-> <<>>, file |-> NoAttachment,
     isThinking |-> "undefined"]

\* the placeholder of the answer                             part_000:223
Placeholder(id) ==
    [id |-> id, role |-> "ai", content |-> <<>>, file |-> NoAttachment,
     isThinking |-> "true"]

ErrorUpdate_Mut(msgs, id) ==
    [i \in DOMAIN msgs |->
        IF msgs[i].id = id THEN [msgs[i] EXCEPT !.isThinking = "false"]
        ELSE msgs[i]]

\* the update of the catch block                             part_000:313-317
ErrorUpdate(msgs, id) == MapContent(msgs, id, Apology)

\* handleSubmit from line 213 to its first await inside try (or, without
\* puter, through catch and finally)                        part_000:213-243, 312-322
Accept(s, t, msgs0, um, m0, fileDataForApi, extractedText) ==
    LET updatedMessages1 == Append(msgs0, um)
        prompt == Prompt(um.content, extractedText)
        aiMessageId == NumToString(t + 1)
        updatedMessages2 == Append(updatedMessages1, Placeholder(aiMessageId))
        finalUpdated == ErrorUpdate(updatedMessages2, aiMessageId)
    IN  /\ input' = <<>>
        /\ selectedFile' = NoFile
        /\ IF puter
           THEN /\ Room(1)
                /\ messages' = updatedMessages2
                /\ writes' = SaveToCloud(writes, updatedMessages1)
                /\ isLoading' = TRUE
                /\ subs' = [subs EXCEPT ![s] =
                       [IdleSub EXCEPT !.pc = "stream", !.mode0 = m0,
                                       !.updatedMessages2 = updatedMessages2,
                                       !.aiMessageId = aiMessageId,
                                       !.fileDataForApi = fileDataForApi,
                                       !.extractedText = extractedText,
                                       !.request =
                                           StrategyCall(m0, prompt,
                                                        fileDataForApi)]]
                /\ lastOp' = Op("accept", s, aiMessageId,
                                <<updatedMessages1>>, <<>>)
           ELSE /\ messages' = finalUpdated
                /\ writes' = SaveToCloud(SaveToCloud(writes, updatedMessages1),
                                         finalUpdated)
                /\ isLoading' = FALSE
                /\ subs' = [subs EXCEPT ![s] = FailedSub]
                /\ lastOp' = Op("accept_fail", s, aiMessageId,
                                <<updatedMessages1, finalUpdated>>, <<>>)
        /\ now' = t
        /\ UNCHANGED <<app, voice, mode, puter, load, store>>

\* the guard of handleSubmit                                 part_000:178
Rejects(text, f) == ~Truthy(Trim(text)) /\ f = NoFile

\* handleSubmit up to its first await                        part_000:176-218
HandleSubmit ==
    IF Rejects(input, selectedFile)
    THEN /\ lastOp' = Op("submit_noop", 0, NoId, <<>>, <<>>)
         /\ UNCHANGED <<app, voice, messages, input, selectedFile, isLoading, mode, puter,
                        now, subs, load, store, writes>>
    ELSE \E s \in Subs, t1 \in Clock :
            /\ subs[s].pc = "idle"
            /\ \A r \in Subs : r < s => subs[r].pc # "idle"
            /\ IF selectedFile # NoFile /\ Ingests(selectedFile)
               THEN /\ subs' = [subs EXCEPT ![s] =
                           [IdleSub EXCEPT !.pc = "ingest",
                                           !.messages0 = messages,
                                           !.userMessage =
                                               UserMessage(t1, input, selectedFile),
                                           !.file0 = selectedFile,
                                           !.mode0 = mode]]
                    /\ now' = t1
                    /\ lastOp' = Op("submit_wait", s, NoId, <<>>, <<>>)
                    /\ UNCHANGED <<app, voice, messages, input, selectedFile, isLoading,
                                   mode, puter, load, store, writes>>
               ELSE Accept(s, t1, messages,
                           UserMessage(t1, input, selectedFile), mode,
                           NoPayload, EmptyText)

\* the send button, disabled while loading or empty         part_000:619-627
SubmitButton ==
    /\ ~(Rejects(input, selectedFile) \/ isLoading)
    /\ HandleSubmit

\* Enter in the textarea calls handleSubmit directly        part_000:596-601
SubmitEnter == HandleSubmit

\* the awaited file read resolves                            part_000:199-210
IngestDone ==
    \E s \in Subs, t2 \in Clock, e \in Extracts :
        /\ subs[s].pc = "ingest"
        /\ LET f == subs[s].file0
               inline == Ext(f) = "pdf" \/ IsImage(f)
               um == IF inline
                     THEN [subs[s].userMessage EXCEPT !.file.url = "data"]
                     ELSE subs[s].userMessage
               fileDataForApi == IF inline THEN FileDataForApi(f) ELSE NoPayload
               \* extractTextFromDocx(file) or file.text()
               extractedText == IF inline THEN EmptyText ELSE e
           IN  /\ inline => e = EmptyText
               /\ Accept(s, t2, subs[s].messages0, um, subs[s].mode0,
                         fileDataForApi, extractedText)

IngestFailed_Mut ==
    \E s \in Subs :
        /\ subs[s].pc = "ingest"
        /\ Room(1)
        /\ LET updatedMessages1 == Append(subs[s].messages0, subs[s].userMessage)
           IN  /\ messages' = updatedMessages1
               /\ writes' = SaveToCloud(writes, updatedMessages1)
        /\ subs' = [subs EXCEPT ![s] = AbortedSub]
        /\ lastOp' = Op("ingest_fail", s, NoId, <<>>, <<>>)
        /\ UNCHANGED <<app, voice, input, selectedFile, isLoading, mode, puter,
                       now, load, store>>

\* the awaited file read rejects: handleSubmit ends by throwing
IngestFailed ==
    \E s \in Subs :
        /\ subs[s].pc = "ingest"
        /\ subs' = [subs EXCEPT ![s] = AbortedSub]
        /\ lastOp' = Op("ingest_fail", s, NoId, <<>>, <<>>)
        /\ UNCHANGED <<app, voice, messages, input, selectedFile, isLoading, mode, puter,
                       now, load, store, writes>>

(* ------------------------------ stream -------------------------------- *)
ClaudeChunk_Mut(sub, p) ==
    LET text == PartText(p) \o sub.text
    IN  [text |-> text,
         updated |-> MapContent(sub.updatedMessages2, sub.aiMessageId, text)]

\* one turn of for await (const part of chat_resp), claude branch
\*                                                          part_000:244-253
ClaudeChunk(sub, p) ==
    LET text == sub.text \o PartText(p)
    IN  [text |-> text,
         updated |-> MapContent(sub.updatedMessages2, sub.aiMessageId, text)]

SearchChunk_Mut(sub, p) ==
    LET text == sub.text \o PartText(p)
    IN  [text |-> text,
         updated |-> [i \in DOMAIN sub.updatedMessages2 |->
                        IF sub.updatedMessages2[i].id = sub.aiMessageId
                        THEN [sub.updatedMessages2[i] EXCEPT !.content = text]
                        ELSE sub.updatedMessages2[i]]]

\* the same turn in the search branch                        part_000:279-287
SearchChunk(sub, p) ==
    LET text == sub.text \o PartText(p)
    IN  [text |-> text,
         updated |-> MapContent(sub.updatedMessages2, sub.aiMessageId, text)]

StreamChunk ==
    \E s \in Subs :
      \E p \in Parts(Len(subs[s].received) + 1) :
        /\ subs[s].pc = "stream"
        /\ Len(subs[s].received) < MaxChunks
        /\ LET r == IF subs[s].mode0 = "claude"
                    THEN ClaudeChunk(subs[s], p)
                    ELSE SearchChunk(subs[s], p)
               received == Append(subs[s].received, p)
           IN  /\ messages' = r.updated
               /\ subs' = [subs EXCEPT ![s].text = r.text,
                                       ![s].received = received]
               /\ lastOp' = Op("chunk", s, subs[s].aiMessageId, <<>>, received)
        /\ UNCHANGED <<app, voice, input, selectedFile, isLoading, mode, puter, now, load,
                       store, writes>>

StreamEnd_Mut ==
    \E s \in Subs :
        /\ subs[s].pc = "stream"
        /\ Room(1)
        /\ LET finalUpdated == MapContent(subs[s].updatedMessages2,
                                          subs[s].aiMessageId, subs[s].text)
           IN  /\ messages' = finalUpdated
               /\ writes' = SaveToCloud(writes, subs[s].updatedMessages2)
               /\ lastOp' = Op("end", s, subs[s].aiMessageId,
                               <<subs[s].updatedMessages2>>, subs[s].received)
        /\ isLoading' = FALSE
        /\ subs' = [subs EXCEPT ![s] = DoneSub]
        /\ UNCHANGED <<app, voice, input, selectedFile, mode, puter, now, load, store>>

\* the stream is exhausted: final update, save, finally      part_000:258-265,
\*                                                          288-295, 320-322
StreamEnd ==
    \E s \in Subs :
        /\ subs[s].pc = "stream"
        /\ Room(1)
        /\ LET finalUpdated == MapContent(subs[s].updatedMessages2,
                                          subs[s].aiMessageId, subs[s].text)
           IN  /\ messages' = finalUpdated
               /\ writes' = SaveToCloud(writes, finalUpdated)
               /\ lastOp' = Op("end", s, subs[s].aiMessageId, <<finalUpdated>>,
                               subs[s].received)
        /\ isLoading' = FALSE
        /\ subs' = [subs EXCEPT ![s] = DoneSub]
        /\ UNCHANGED <<app, voice, input, selectedFile, mode, puter, now, load, store>>

\* puter.ai.chat rejects or the stream throws: catch, finally  part_000:312-322
StrategyFailure ==
    \E s \in Subs :
        /\ subs[s].pc = "stream"
        /\ Room(1)
        /\ LET finalUpdated == ErrorUpdate(subs[s].updatedMessages2,
                                           subs[s].aiMessageId)
           IN  /\ messages' = finalUpdated
               /\ writes' = SaveToCloud(writes, finalUpdated)
               /\ lastOp' = Op("fail", s, subs[s].aiMessageId, <<finalUpdated>>,
                               subs[s].received)
        /\ isLoading' = FALSE
        /\ subs' = [subs EXCEPT ![s] = FailedSub]
        /\ UNCHANGED <<app, voice, input, selectedFile, mode, puter, now, load, store>>

(* ----------------------- delete and new session ----------------------- *)
\* the Delete button of a message; it is rendered only for a message that
\* is not thinking                                          part_000:72-76, 468-526
HandleDeleteMessage ==
    \E i \in DOMAIN messages :
        /\ ~Pending(messages[i])
        /\ Room(1)
        /\ LET id == messages[i].id
               updated == FilterOut(messages, id)
           IN  /\ messages' = updated
               /\ writes' = SaveToCloud(writes, updated)
               /\ lastOp' = Op("delete", 0, id, <<updated>>, <<>>)
        /\ UNCHANGED <<app, voice, input, selectedFile, isLoading, mode, puter, now, subs,
                       load, store>>

HandleNewChat_Mut ==
    /\ Room(1)
    /\ messages' = <<>>
    /\ writes' = SaveToCloud(writes, <<>>)
    /\ input' = <<>>
    /\ lastOp' = Op("new", 0, NoId, << <<>> >>, <<>>)
    /\ UNCHANGED <<app, voice, selectedFile, isLoading, mode, puter, now, subs, load, store>>

\* the New Chat button                                       part_000:65-70
HandleNewChat ==
    /\ Room(1)
    /\ messages' = <<>>
    /\ writes' = SaveToCloud(writes, <<>>)
    /\ input' = <<>>
    /\ selectedFile' = NoFile
    /\ lastOp' = Op("new", 0, NoId, << <<>> >>, <<>>)
    /\ UNCHANGED <<app, voice, isLoading, mode, puter, now, subs, load, store>>

(* ------------------------------- Next --------------------------------- *)
Next ==
    \/ SetInput
    \/ SetMode
    \/ SubmitButton
    \/ SubmitEnter
    \/ StreamChunk
    \/ StreamEnd
    \/ StrategyFailure
    \/ HandleDeleteMessage
    \/ HandleNewChat
    \/ LoadRead
    \/ LoadFailed
    \/ LoadDone
    \/ WriteApplied

Spec == Init /\ [][Next]_vars

(* A session with attachments: the provider client is loaded, no write is *)
(* rejected and the streams end without a part.                            *)
InitIngest ==
    /\ messages = <<>>
    /\ input = <<>>
    /\ selectedFile = NoFile
    /\ isLoading = FALSE
    /\ mode = "search"
    /\ puter = TRUE
    /\ now = 0
    /\ subs = [s \in 1 .. MaxSubs |-> IdleSub]
    /\ store \in AllStores
    /\ load = [pc |-> "reading", text |-> Absent]
    /\ writes = <<>>
    /\ lastOp = Op("init", 0, NoId, <<>>, <<>>)
    /\ voice = IdleVoice
    /\ app = SignedIn("alice")

NextIngest ==
    \/ SetInput
    \/ SetSelectedFile
    \/ SubmitButton
    \/ SubmitEnter
    \/ IngestDone
    \/ IngestFailed
    \/ StreamEnd
    \/ StrategyFailure
    \/ HandleNewChat
    \/ LoadRead
    \/ LoadFailed
    \/ LoadDone
    \/ WriteApplied
    \/ WriteFailed

SpecIngest == InitIngest /\ [][NextIngest]_vars

(* A session in which the user submits up to MaxRace times; the provider   *)
(* client is loaded, the store holds no file, no write is rejected and the *)
(* streams end without a part.                                             *)
InitRace ==
    /\ messages = <<>>
    /\ input = <<>>
    /\ selectedFile = NoFile
    /\ isLoading = FALSE
    /\ mode = "search"
    /\ puter = TRUE
    /\ now = 0
    /\ subs = [s \in 1 .. MaxRace |-> IdleSub]
    /\ store = Absent
    /\ load = [pc |-> "done", text |-> Absent]
    /\ writes = <<>>
    /\ lastOp = Op("init", 0, NoId, <<>>, <<>>)
    /\ voice = IdleVoice
    /\ app = SignedIn("alice")

NextRace ==
    \/ SetInput
    \/ SubmitButton
    \/ SubmitEnter
    \/ StreamEnd
    \/ StrategyFailure
    \/ HandleDeleteMessage
    \/ HandleNewChat
    \/ WriteApplied

SpecRace == InitRace /\ [][NextRace]_vars

(* ------------------------------- voice -------------------------------- *)
\* what puter.ai.speech2txt can resolve to (its text)
Transcripts == {EmptyText, <<"v">>}

\* the texts of the alerts                                  part_000:140, 150
FailedToTranscribe == "Failed to transcribe audio."
MicrophoneRequired == "Microphone access is required for voice input."

\* a MediaRecorder just started on a granted stream         part_000:111-112, 146
NewRecorder == [state |-> "recording", tracks |-> "live"]

\* the recorders that are recording on a live microphone stream
Running == {i \in DOMAIN voice.recorders :
               /\ voice.recorders[i].state = "recording"
               /\ voice.recorders[i].tracks = "live"}

\* the microphone button: handleVoiceInput up to its await   part_000:103-111
HandleVoiceInput ==
    /\ IF voice.isRecording
       THEN \* mediaRecorderRef.current?.stop(); setIsRecording(false)
            /\ voice.ref # 0 => voice.recorders[voice.ref].state = "recording"
            /\ voice' = [voice EXCEPT
                   !.isRecording = FALSE,
                   !.recorders =
                       IF voice.ref = 0 THEN @
                       ELSE [@ EXCEPT ![voice.ref].state = "stopped"]]
       ELSE \* await navigator.mediaDevices.getUserMedia({ audio: true })
            /\ Len(voice.recorders) + voice.requests < MaxRecorders
            /\ voice' = [voice EXCEPT !.requests = @ + 1]
    /\ UNCHANGED <<app, messages, input, selectedFile, isLoading, mode, puter, now,
                   subs, load, store, writes, lastOp>>

\* getUserMedia resolves: recorder created and started       part_000:112-147
MicGranted ==
    /\ voice.requests > 0
    /\ voice' = [voice EXCEPT
           !.requests = @ - 1,
           !.recorders = Append(@, NewRecorder),
           !.ref = Len(voice.recorders) + 1,
           !.isRecording = TRUE]
    /\ UNCHANGED <<app, messages, input, selectedFile, isLoading, mode, puter, now,
                   subs, load, store, writes, lastOp>>

\* getUserMedia rejects: alert                               part_000:148-151
MicDenied ==
    /\ voice.requests > 0
    /\ voice' = [voice EXCEPT !.requests = @ - 1, !.alert = MicrophoneRequired]
    /\ UNCHANGED <<app, messages, input, selectedFile, isLoading, mode, puter, now,
                   subs, load, store, writes, lastOp>>

\* mediaRecorder.onstop up to its await (or, without puter, through catch
\* and finally)                                             part_000:122-132
RecorderOnStop ==
    \E i \in DOMAIN voice.recorders :
        /\ voice.recorders[i].state = "stopped"
        /\ voice' = [voice EXCEPT
               !.recorders[i] = [state |-> "closed", tracks |-> "ended"],
               !.transcribing = IF puter THEN @ + 1 ELSE @,
               !.alert = IF puter THEN @ ELSE FailedToTranscribe]
        /\ isLoading' = puter
        /\ UNCHANGED <<app, messages, input, selectedFile, mode, puter, now, subs,
                       load, store, writes, lastOp>>

TranscribeDone_Mut ==
    \E text \in Transcripts :
        /\ voice.transcribing > 0
        /\ voice' = [voice EXCEPT !.transcribing = @ - 1, !.heard = text]
        /\ input' = IF Truthy(text) THEN input \o text ELSE input
        /\ isLoading' = FALSE
        /\ UNCHANGED <<app, messages, selectedFile, mode, puter, now, subs, load,
                       store, writes, lastOp>>

\* puter.ai.speech2txt resolves                              part_000:132-143
TranscribeDone ==
    \E text \in Transcripts :
        /\ voice.transcribing > 0
        /\ voice' = [voice EXCEPT !.transcribing = @ - 1, !.heard = text]
        /\ input' = IF Truthy(text)
                     THEN input \o (IF Truthy(input) THEN <<" ">> ELSE <<>>)
                                \o text
                     ELSE input
        /\ isLoading' = FALSE
        /\ UNCHANGED <<app, messages, selectedFile, mode, puter, now, subs, load,
                       store, writes, lastOp>>

\* puter.ai.speech2txt rejects: alert                        part_000:138-143
TranscribeFailed ==
    /\ voice.transcribing > 0
    /\ voice' = [voice EXCEPT !.transcribing = @ - 1,
                              !.alert = FailedToTranscribe]
    /\ isLoading' = FALSE
    /\ UNCHANGED <<app, messages, input, selectedFile, mode, puter, now, subs, load,
                   store, writes, lastOp>>

(* A session of voice input: the microphone button and the draft.          *)
InitVoice ==
    /\ messages = <<>>
    /\ input = <<>>
    /\ selectedFile = NoFile
    /\ isLoading = FALSE
    /\ mode = "search"
    /\ puter \in BOOLEAN
    /\ now = 0
    /\ subs = [s \in 1 .. MaxSubs |-> IdleSub]
    /\ store = Absent
    /\ load = [pc |-> "done", text |-> Absent]
    /\ writes = <<>>
    /\ lastOp = Op("init", 0, NoId, <<>>, <<>>)
    /\ voice = IdleVoice
    /\ app = SignedIn("alice")

NextVoice ==
    \/ SetInput
    \/ HandleVoiceInput
    \/ MicGranted
    \/ MicDenied
    \/ RecorderOnStop
    \/ TranscribeDone
    \/ TranscribeFailed

SpecVoice == InitVoice /\ [][NextVoice]_vars

(* --------------------------- sign-in, sign-out ------------------------ *)
\* the messages of the Auth component                        Auth.tsx:17, 24, 28
PuterNotLoaded == "Puter.js is not loaded."
AuthenticationFailed == "Authentication failed."
FailedToSignIn == "Failed to sign in."

\* err.message of a rejected puter.auth.signIn
ErrMessages == {"", "cancelled"}

\* the Chat component mounts: its state is the initial one and its mount
\* effect starts the load                                    part_000:17-26, 42-59
MountChat ==
    /\ messages' = <<>>
    /\ input' = <<>>
    /\ selectedFile' = NoFile
    /\ isLoading' = FALSE
    /\ mode' = "search"
    /\ load' = [pc |-> IF puter THEN "reading" ELSE "done", text |-> Absent]
    /\ voice' = [voice EXCEPT !.isRecording = FALSE, !.ref = 0]

\* the awaited signIn call that resumes: one of the mounted Auth component
\* or one of an Auth component unmounted since
Resumed(live) ==
    IF live THEN [app EXCEPT !.pending = @ - 1]
    ELSE [app EXCEPT !.orphans = @ - 1]

Awaited(live) == IF live THEN app.pending > 0 ELSE app.orphans > 0

\* the sign-in button: handlePuterSignIn up to its await (or, without
\* puter, through its catch)                                 Auth.tsx:12-20
HandlePuterSignIn ==
    /\ ~Mounted
    /\ app.attempts < MaxAttempts
    /\ app' = IF puter
              THEN [app EXCEPT !.error = "", !.pending = @ + 1,
                               !.attempts = @ + 1]
              ELSE [app EXCEPT !.error = PuterNotLoaded, !.attempts = @ + 1,
                               !.failures = @ + 1]
    /\ UNCHANGED <<messages, input, selectedFile, isLoading, mode, puter, now,
                   subs, load, store, writes, lastOp, voice>>

\* signIn resolves with a username: setItem, onLogin -> setUser
\*                                              Auth.tsx:21-23, App.tsx:15-17
SignInSucceeded ==
    \E res \in Users, live \in BOOLEAN :
        /\ Awaited(live)
        /\ app' = [Resumed(live) EXCEPT
               !.stored = res,
               !.user = res,
               \* the Auth component unmounts with its other calls awaited
               !.pending = 0,
               !.orphans = @ + Resumed(live).pending]
        /\ IF ~Mounted
           THEN MountChat
           ELSE \* Chat stays mounted; the effect of [userEmail] runs again
                /\ load' = IF res # app.user /\ puter
                           THEN [pc |-> "reading", text |-> Absent]
                           ELSE load
                /\ UNCHANGED <<messages, input, selectedFile, isLoading, mode,
                               voice>>
        /\ UNCHANGED <<puter, now, subs, store, writes, lastOp>>

\* SignInNoUsername without the setError of Auth.tsx:24
SignInNoUsername_Mut ==
    \E live \in BOOLEAN :
        /\ Awaited(live)
        /\ app' = [Resumed(live) EXCEPT !.failures = @ + 1]
        /\ UNCHANGED <<messages, input, selectedFile, isLoading, mode, puter,
                       now, subs, load, store, writes, lastOp, voice>>

\* signIn resolves without a username                        Auth.tsx:24-26
SignInNoUsername ==
    \E live \in BOOLEAN :
        /\ Awaited(live)
        /\ app' = [Resumed(live) EXCEPT
               !.error = IF live THEN AuthenticationFailed ELSE @,
               !.failures = @ + 1]
        /\ UNCHANGED <<messages, input, selectedFile, isLoading, mode, puter,
                       now, subs, load, store, writes, lastOp, voice>>

\* signIn rejects                                            Auth.tsx:27-29
SignInRejected ==
    \E live \in BOOLEAN, message \in ErrMessages :
        /\ Awaited(live)
        /\ app' = [Resumed(live) EXCEPT
               !.error = IF live
                         THEN (IF message # "" THEN message ELSE FailedToSignIn)
                         ELSE @,
               !.failures = @ + 1]
        /\ UNCHANGED <<messages, input, selectedFile, isLoading, mode, puter,
                       now, subs, load, store, writes, lastOp, voice>>

\* HandleLogout without the removeItem of App.tsx:20
HandleLogout_Mut ==
    /\ Mounted
    /\ app' = [app EXCEPT !.user = NoUser, !.error = ""]
    /\ UNCHANGED <<messages, input, selectedFile, isLoading, mode, puter, now,
                   subs, load, store, writes, lastOp, voice>>

\* the sign-out button: removeItem, setUser(null); Chat unmounts and a new
\* Auth component mounts                                     App.tsx:19-22
HandleLogout ==
    /\ Mounted
    /\ app' = [app EXCEPT !.stored = NoUser, !.user = NoUser, !.error = ""]
    /\ UNCHANGED <<messages, input, selectedFile, isLoading, mode, puter, now,
                   subs, load, store, writes, lastOp, voice>>

(* Sign-in and sign-out: the browser starts with or without a stored       *)
(* identity; the transcript is left aside.                                 *)
InitAuth ==
    /\ messages = <<>>
    /\ input = <<>>
    /\ selectedFile = NoFile
    /\ isLoading = FALSE
    /\ mode = "search"
    /\ puter \in BOOLEAN
    /\ now = 0
    /\ subs = [s \in 1 .. MaxSubs |-> IdleSub]
    /\ store = Absent
    /\ app \in {SignedOut, SignedIn("alice")}
    /\ load = [pc |-> IF puter /\ Mounted THEN "reading" ELSE "done",
               text |-> Absent]
    /\ writes = <<>>
    /\ lastOp = Op("init", 0, NoId, <<>>, <<>>)
    /\ voice = IdleVoice

NextAuth ==
    \/ HandlePuterSignIn
    \/ SignInSucceeded
    \/ SignInNoUsername
    \/ SignInRejected
    \/ HandleLogout
    \/ Mounted /\ SetInput

SpecAuth == InitAuth /\ [][NextAuth]_vars

(* A session with the keyboard and the microphone: the provider client is *)
(* loaded, the store holds no file and no write is rejected.               *)
InitBusy ==
    /\ messages = <<>>
    /\ input = <<>>
    /\ selectedFile = NoFile
    /\ isLoading = FALSE
    /\ mode = "search"
    /\ puter = TRUE
    /\ now = 0
    /\ subs = [s \in 1 .. MaxSubs |-> IdleSub]
    /\ store = Absent
    /\ load = [pc |-> "done", text |-> Absent]
    /\ writes = <<>>
    /\ lastOp = Op("init", 0, NoId, <<>>, <<>>)
    /\ voice = IdleVoice
    /\ app = SignedIn("alice")

NextBusy ==
    \/ SetInput
    \/ SubmitButton
    \/ StreamChunk
    \/ StreamEnd
    \/ StrategyFailure
    \/ WriteApplied
    \/ HandleVoiceInput
    \/ MicGranted
    \/ RecorderOnStop
    \/ TranscribeDone
    \/ TranscribeFailed

SpecBusy == InitBusy /\ [][NextBusy]_vars

(* ----------------- a submission that outlives its screen --------------- *)
\* The handlers of a Chat component that was unmounted run on: their
\* setMessages and setIsLoading are without effect, their calls are made.

\* a chunk arrives after the sign-out                        part_000:244-257
OrphanStreamChunk ==
    \E s \in Subs :
      \E p \in Parts(Len(subs[s].received) + 1) :
        /\ subs[s].pc = "stream"
        /\ Len(subs[s].received) < MaxChunks
        /\ LET r == IF subs[s].mode0 = "claude"
                    THEN ClaudeChunk(subs[s], p)
                    ELSE SearchChunk(subs[s], p)
               received == Append(subs[s].received, p)
           IN  /\ subs' = [subs EXCEPT ![s].text = r.text,
                                       ![s].received = received]
               /\ lastOp' = Op("chunk", s, subs[s].aiMessageId, <<>>, received)
        /\ UNCHANGED <<app, voice, messages, input, selectedFile, isLoading,
                       mode, puter, now, load, store, writes>>

\* the stream is exhausted after the sign-out: save          part_000:258-265,
\*                                                                   288-295
OrphanStreamEnd ==
    \E s \in Subs :
        /\ subs[s].pc = "stream"
        /\ Room(1)
        /\ LET finalUpdated == MapContent(subs[s].updatedMessages2,
                                          subs[s].aiMessageId, subs[s].text)
           IN  /\ writes' = SaveToCloud(writes, finalUpdated)
               /\ lastOp' = Op("end", s, subs[s].aiMessageId, <<finalUpdated>>,
                               subs[s].received)
        /\ subs' = [subs EXCEPT ![s] = DoneSub]
        /\ UNCHANGED <<app, voice, messages, input, selectedFile, isLoading,
                       mode, puter, now, load, store>>

\* the stream throws after the sign-out: catch, save         part_000:312-319
OrphanStrategyFailure ==
    \E s \in Subs :
        /\ subs[s].pc = "stream"
        /\ Room(1)
        /\ LET finalUpdated == ErrorUpdate(subs[s].updatedMessages2,
                                           subs[s].aiMessageId)
           IN  /\ writes' = SaveToCloud(writes, finalUpdated)
               /\ lastOp' = Op("fail", s, subs[s].aiMessageId, <<finalUpdated>>,
                               subs[s].received)
        /\ subs' = [subs EXCEPT ![s] = FailedSub]
        /\ UNCHANGED <<app, voice, messages, input, selectedFile, isLoading,
                       mode, puter, now, load, store>>

(* A session that ends with a sign-out: the provider client is loaded, the *)
(* store holds no file and no write is rejected.                           *)
InitLogout ==
    /\ messages = <<>>
    /\ input = <<>>
    /\ selectedFile = NoFile
    /\ isLoading = FALSE
    /\ mode = "search"
    /\ puter = TRUE
    /\ now = 0
    /\ subs = [s \in 1 .. MaxSubs |-> IdleSub]
    /\ store = Absent
    /\ load = [pc |-> "done", text |-> Absent]
    /\ writes = <<>>
    /\ lastOp = Op("init", 0, NoId, <<>>, <<>>)
    /\ voice = IdleVoice
    /\ app = SignedIn("alice")

NextLogout ==
    \/ Mounted /\ SetInput
    \/ Mounted /\ SetMode
    \/ Mounted /\ SubmitButton
    \/ Mounted /\ StreamChunk
    \/ Mounted /\ StreamEnd
    \/ Mounted /\ StrategyFailure
    \/ HandleLogout
    \/ ~Mounted /\ OrphanStreamChunk
    \/ ~Mounted /\ OrphanStreamEnd
    \/ ~Mounted /\ OrphanStrategyFailure
    \/ WriteApplied

SpecLogout == InitLogout /\ [][NextLogout]_vars

(* A session against a store that applies the writes in the order they     *)
(* were issued; the provider client is loaded, no read and no write is     *)
(* rejected and the streams end without a part.                            *)
\* the store applies the oldest write in flight
WriteAppliedInOrder ==
    /\ writes # <<>>
    /\ store' = Head(writes)
    /\ writes' = Tail(writes)
    /\ UNCHANGED <<app, voice, lastOp, messages, input, selectedFile, isLoading, mode,
                   puter, now, subs, load>>

InitSync ==
    /\ messages = <<>>
    /\ input = <<>>
    /\ selectedFile = NoFile
    /\ isLoading = FALSE
    /\ mode = "search"
    /\ puter = TRUE
    /\ now = 0
    /\ subs = [s \in 1 .. MaxSubs |-> IdleSub]
    /\ store \in InitialStores
    /\ load = [pc |-> "reading", text |-> Absent]
    /\ writes = <<>>
    /\ lastOp = Op("init", 0, NoId, <<>>, <<>>)
    /\ voice = IdleVoice
    /\ app = SignedIn("alice")

NextSync ==
    \/ SetInput
    \/ SubmitButton
    \/ SubmitEnter
    \/ StreamEnd
    \/ StrategyFailure
    \/ HandleDeleteMessage
    \/ HandleNewChat
    \/ LoadRead
    \/ LoadDone
    \/ WriteAppliedInOrder

SpecSync == InitSync /\ [][NextSync]_vars

(* A session that composes prompts: every kind of attachment and both      *)
(* modes; the provider client is loaded and the store is left aside.       *)
InitPrompt ==
    /\ messages = <<>>
    /\ input = <<>>
    /\ selectedFile = NoFile
    /\ isLoading = FALSE
    /\ mode = "search"
    /\ puter = TRUE
    /\ now = 0
    /\ subs = [s \in 1 .. MaxSubs |-> IdleSub]
    /\ store = Absent
    /\ load = [pc |-> "done", text |-> Absent]
    /\ writes = <<>>
    /\ lastOp = Op("init", 0, NoId, <<>>, <<>>)
    /\ voice = IdleVoice
    /\ app = SignedIn("alice")

NextPrompt ==
    \/ SetInput
    \/ SetAnyFile
    \/ SetMode
    \/ SubmitButton
    \/ SubmitEnter
    \/ IngestDone
    \/ IngestFailed
    \/ StreamEnd
    \/ StrategyFailure

SpecPrompt == InitPrompt /\ [][NextPrompt]_vars

(* ====================== properties of the claims ====================== *)
PendingCount == Cardinality({i \in DOMAIN messages : Pending(messages[i])})

\* C1: in every reachable state at most one message of the transcript has
\* pending = true.
C1_AtMostOnePending == PendingCount <= 1

\* C2: a submit invoked while an earlier submission is in flight changes
\* neither the transcript nor the draft, issues no write and starts nothing.
C2_ConcurrentSubmitRejected ==
    [][((SubmitButton \/ SubmitEnter) /\ \E s \in Subs : InFlight(s))
        => UNCHANGED <<messages, input, subs, writes>>]_vars

\* the messages of msgs that carry the id
WithId(msgs, id) == {i \in DOMAIN msgs : msgs[i].id = id}

\* the step ended a submission by its error update
FailureStep == StrategyFailure \/ (HandleSubmit /\ lastOp'.op = "accept_fail")

\* C3: when the strategy fails, before or after chunks, the assistant
\* message of the submission gets the apology as content and pending = false,
\* and exactly one save (a call of saveToCloud, which writes to the store
\* when the provider client exists) is issued after the failure, carrying
\* that transcript.
C3_FailureYieldsApology ==
    [][FailureStep =>
        /\ WithId(messages', lastOp'.id) # {}
        /\ \A i \in WithId(messages', lastOp'.id) :
              /\ messages'[i].content = Apology
              /\ ~Pending(messages'[i])
        \* the saves of the step: the one of line 215 when the failure is
        \* raised in the accepting step itself, then the one after the failure
        /\ Len(lastOp'.saved) = IF lastOp'.op = "accept_fail" THEN 2 ELSE 1
        /\ lastOp'.op = "accept_fail" =>
              lastOp'.saved[1] = SubSeq(messages', 1, Len(messages') - 1)
        /\ lastOp'.saved[Len(lastOp'.saved)] = messages'
        /\ puter => /\ Len(writes') = Len(writes) + 1
                    /\ writes'[Len(writes')].items = messages'
      ]_vars

\* a failure after some text had already been folded in
C3_Witness ==
    /\ lastOp.op = "fail"
    /\ \E k \in DOMAIN lastOp.parts : lastOp.parts[k].hasText
    /\ \E i \in DOMAIN messages :
          messages[i].id = lastOp.id /\ messages[i].content = Apology

\* c1 + c2 + ... + cN, a part without text counting as the empty string
RECURSIVE Concatenation(_)
Concatenation(parts) ==
    IF parts = <<>> THEN <<>>
    ELSE (IF Head(parts).hasText THEN Head(parts).text ELSE <<>>)
         \o Concatenation(Tail(parts))

\* C4: after the k-th chunk the assistant message holds c1 + ... + ck, and
\* after the end of the stream c1 + ... + cN, in arrival order, in both modes.
C4_FoldIsConcatenation ==
    [][(StreamChunk \/ StreamEnd) =>
        /\ WithId(messages', lastOp'.id) # {}
        /\ \A i \in WithId(messages', lastOp'.id) :
              messages'[i].content = Concatenation(lastOp'.parts)
      ]_vars

\* a claude stream of two text parts has ended
C4_Witness ==
    /\ lastOp.op = "end"
    /\ mode = "claude"
    /\ Len(lastOp.parts) = 2
    /\ \A k \in DOMAIN lastOp.parts : lastOp.parts[k].hasText
    /\ \E i \in DOMAIN messages :
          messages[i].id = lastOp.id /\ messages[i].content = <<"a", "b">>

\* C5 as claimed: after a chunk that is not the end of the stream the
\* assistant message still has pending = true.
C5_PendingUntilTerminal ==
    [][StreamChunk =>
        \A i \in WithId(messages', lastOp'.id) : Pending(messages'[i])]_vars

\* C5 as amended: the placeholder is appended with pending = true; the first
\* chunk already sets pending = false, and it is false after every chunk and
\* after the end of the stream.
C5_PendingClearedByFirstChunk ==
    /\ [][(HandleSubmit \/ IngestDone) /\ lastOp'.op = "accept" =>
            Pending(messages'[Len(messages')])]_vars
    /\ [][(StreamChunk \/ StreamEnd) =>
            /\ WithId(messages', lastOp'.id) # {}
            /\ \A i \in WithId(messages', lastOp'.id) :
                  ~Pending(messages'[i])]_vars

\* the first of the chunks has been folded and the stream is still open
C5_Witness ==
    /\ lastOp.op = "chunk"
    /\ Len(lastOp.parts) = 1
    /\ subs[lastOp.sub].pc = "stream"
    /\ \E i \in DOMAIN messages :
          messages[i].id = lastOp.id /\ ~Pending(messages[i])

\* the accepted submit("Hello") on an empty transcript
HelloAccepted ==
    /\ HandleSubmit
    /\ lastOp'.op \in {"accept", "accept_fail"}
    /\ messages = <<>>
    /\ input = Hello

HelloAppended ==
    /\ Len(messages') = 2
    /\ messages'[1].role = "user"
    /\ messages'[1].content = Hello
    /\ messages'[2].role = "ai"
    \* without the provider client the error update follows in the same step
    /\ Pending(messages'[2]) \/ lastOp'.op = "accept_fail"

\* C6 as claimed: submit("Hello") on the empty transcript gives exactly the
\* user message and a pending assistant message, and when the strategy
\* completes or fails that message has pending = false and non-empty content.
C6_HelloScenario ==
    /\ [][HelloAccepted => HelloAppended]_vars
    /\ [][(StreamEnd \/ FailureStep) =>
            /\ WithId(messages', lastOp'.id) # {}
            /\ \A i \in WithId(messages', lastOp'.id) :
                  /\ ~Pending(messages'[i])
                  /\ messages'[i].content # <<>>]_vars

\* C6 as amended: the final content is the apology after a failure and the
\* concatenation of the parts after completion, which is non-empty exactly
\* when some part carried text.
C6_HelloScenarioAmended ==
    /\ [][HelloAccepted => HelloAppended]_vars
    /\ [][FailureStep =>
            /\ WithId(messages', lastOp'.id) # {}
            /\ \A i \in WithId(messages', lastOp'.id) :
                  /\ ~Pending(messages'[i])
                  /\ messages'[i].content = Apology
                  /\ messages'[i].content # <<>>]_vars
    /\ [][StreamEnd =>
            /\ WithId(messages', lastOp'.id) # {}
            /\ \A i \in WithId(messages', lastOp'.id) :
                  /\ ~Pending(messages'[i])
                  /\ messages'[i].content = Concatenation(lastOp'.parts)
                  /\ (messages'[i].content # <<>>) <=>
                        \E k \in DOMAIN lastOp'.parts :
                            /\ lastOp'.parts[k].hasText
                            /\ lastOp'.parts[k].text # <<>>]_vars

\* the Hello submission has completed with an answer
C6_Witness ==
    /\ lastOp.op = "end"
    /\ Len(messages) = 2
    /\ messages[1].role = "user" /\ messages[1].content = Hello
    /\ messages[2].role = "ai" /\ ~Pending(messages[2])
    /\ messages[2].content # <<>>

\* C7: deleteMessage(id) removes exactly one message, the one with that id,
\* keeps every other message in place and order, and hands the new
\* transcript to persistence.
C7_DeleteRemovesExactlyOne ==
    [][HandleDeleteMessage =>
        /\ \E k \in DOMAIN messages :
              /\ messages[k].id = lastOp'.id
              /\ messages' = RemoveAt(messages, k)
        /\ lastOp'.saved = <<messages'>>
        /\ puter => writes' = Append(writes, Stringify(messages'))
      ]_vars

\* C8: newSession in any state empties the transcript, hands the empty
\* transcript to persistence and clears the draft text and the attachment.
C8_NewSessionClears ==
    [][HandleNewChat =>
        /\ messages' = <<>>
        /\ input' = <<>>
        /\ selectedFile' = NoFile
        /\ lastOp'.saved = << <<>> >>
        /\ puter => writes' = Append(writes, Stringify(<<>>))
      ]_vars

\* a new session started while a submission was streaming and a write was
\* in flight
C8_Witness ==
    /\ lastOp.op = "new"
    /\ messages = <<>>
    /\ \E s \in Subs : subs[s].pc = "stream"
    /\ Len(writes) = 2

\* a text of white space only (or of nothing)
Blank(t) == \A i \in DOMAIN t : t[i] = " "

\* C9: a submit with blank text and no attachment changes nothing: not the
\* transcript, the draft, the in-flight flag or the store, and starts nothing.
C9_BlankSubmitIsNoOp ==
    [][((SubmitButton \/ SubmitEnter) /\ Blank(input) /\ selectedFile = NoFile)
        => UNCHANGED <<messages, input, selectedFile, isLoading, subs, store,
                       writes>>]_vars

\* Enter was pressed on a draft of one space
C9_Witness ==
    /\ lastOp.op = "submit_noop"
    /\ input = <<" ">>
    /\ selectedFile = NoFile

\* a handler has changed the transcript locally since the mount
LocallyMutated ==
    lastOp.op \in {"accept", "accept_fail", "chunk", "end", "fail", "delete",
                   "new"}

\* C10: a load that completes after a local mutation leaves the transcript
\* as the mutation made it.
C10_LoadKeepsLocalMutation ==
    [][(LoadDone /\ LocallyMutated) => messages' = messages]_vars

\* nothing is in flight: no submission, no load, no persistence write
Quiescent ==
    /\ \A s \in Subs : ~InFlight(s)
    /\ load.pc = "done"
    /\ writes = <<>>

\* C11: in every state where no submission, load or persistence write is in
\* flight (and every issued write succeeded) the stored value is the
\* serialization of the current transcript; a store that was never written
\* counts as the empty transcript.
C11_RemoteIsSnapshot ==
    Quiescent => \/ store = Stringify(messages)
                 \/ store = Absent /\ messages = <<>>

\* C12: when the file read of a submit fails, the submission ends there: the
\* transcript, the writes in flight, the store and the in-flight flag are
\* left as they were, no strategy call has been made for it, and it never
\* resumes; while it waited for the read it had appended nothing either.
C12_IngestionFailureAborts ==
    /\ [][IngestFailed =>
            /\ UNCHANGED <<messages, writes, store, isLoading>>
            /\ subs'[lastOp'.sub].pc = "aborted"
            /\ subs'[lastOp'.sub].request = NoRequest]_vars
    /\ [][lastOp'.op = "submit_wait" /\ lastOp' # lastOp =>
            /\ UNCHANGED <<messages, writes, store, isLoading>>
            /\ subs'[lastOp'.sub].request = NoRequest]_vars
    /\ [][\A s \in Subs : subs[s].pc = "aborted" => subs'[s] = subs[s]]_vars

\* the read of the attached file has failed: nothing was appended or
\* written, and the draft still holds the attachment
C12_Witness ==
    /\ lastOp.op = "ingest_fail"
    /\ subs[lastOp.sub].pc = "aborted"
    /\ messages = <<>>
    /\ writes = <<>>
    /\ selectedFile # NoFile
    /\ ~isLoading

\* the load has ended, whatever it found
LoadEnded == load.pc = "done"

\* C13: the startup load sets the transcript to the stored array when the
\* fetched text parses to an array; when the file is absent, the text does
\* not parse or is not an array, or the fetch fails, the transcript is left
\* as it is (empty at startup), nothing else changes, the load ends, and the
\* handlers stay enabled.
C13_LoadSession ==
    /\ [][LoadDone =>
            /\ load.text.kind = "array" => messages' = load.text.items
            /\ load.text.kind \in {"garbage", "object"} => messages' = messages
            /\ messages = <<>> /\ load.text.kind # "array" => messages' = <<>>
            /\ LoadEnded'
            /\ UNCHANGED <<input, selectedFile, isLoading, mode, subs, writes,
                           store>>]_vars
    /\ [][(LoadRead \/ LoadFailed) =>
            /\ UNCHANGED <<messages, input, selectedFile, isLoading, mode, subs,
                           writes, store>>
            /\ LoadEnded' \/ (store # Absent /\ load'.text = store)]_vars
    /\ [](LoadEnded =>
            /\ ENABLED SetInput
            /\ ENABLED SetSelectedFile
            \* within the bounds on submissions and on writes in flight
            /\ (\E s \in Subs : subs[s].pc = "idle") /\ Len(writes) < MaxInFlight
                  => ENABLED SubmitEnter
            /\ Len(writes) < MaxInFlight => ENABLED HandleNewChat)

\* a stored text that is not a message array was loaded and the transcript
\* is still empty
C13_Witness ==
    /\ lastOp.op = "load_done"
    /\ store \in {Garbage, NotArray}
    /\ LoadEnded
    /\ messages = <<>>

\* C14: a persistence write that fails changes nothing but the set of
\* writes in flight; a submission calls its strategy in the step that issues
\* its first write, and it can be finalized while writes are still in flight.
C14_PersistenceDetached ==
    /\ [][WriteFailed =>
            UNCHANGED <<messages, input, selectedFile, isLoading, mode, subs,
                        load, store>>]_vars
    /\ [][lastOp'.op = "accept" /\ lastOp' # lastOp =>
            /\ Len(writes') = Len(writes) + 1
            /\ subs'[lastOp'.sub].pc = "stream"
            /\ subs'[lastOp'.sub].request.api = "puter.ai.chat"]_vars
    /\ [](\A s \in Subs :
            subs[s].pc = "stream" /\ Len(writes) < MaxInFlight =>
                ENABLED StreamEnd /\ ENABLED StrategyFailure)

\* a submission has completed although both of its writes were rejected:
\* the store was never written
C14_Witness ==
    /\ lastOp.op = "end"
    /\ store \in {Absent, Garbage, NotArray}
    /\ writes = <<>>
    /\ LoadEnded
    /\ Len(messages) = 2
    /\ ~Pending(messages[2])
    /\ ~isLoading

\* C15: the step that ends a stream successfully issues a write, and the
\* transcript it carries holds the assistant message of the submission with
\* pending = false and the whole text of the stream.
C15_PersistAfterCompletion ==
    [][StreamEnd =>
        /\ Len(lastOp'.saved) = 1
        /\ puter
        /\ writes' = Append(writes, Stringify(lastOp'.saved[1]))
        /\ WithId(lastOp'.saved[1], lastOp'.id) # {}
        /\ \A i \in WithId(lastOp'.saved[1], lastOp'.id) :
              /\ ~Pending(lastOp'.saved[1][i])
              /\ lastOp'.saved[1][i].content = Concatenation(lastOp'.parts)
      ]_vars

\* the write issued at the end of a stream of two text parts is in flight
C15_Witness ==
    /\ lastOp.op = "end"
    /\ writes # <<>>
    /\ LET last == writes[Len(writes)].items
       IN  \E i \in DOMAIN last :
              /\ last[i].id = lastOp.id
              /\ last[i].role = "ai"
              /\ ~Pending(last[i])
              /\ last[i].content = <<"a", "b">>

\* the step accepted a submission: it appended the two messages and called
\* the strategy
Accepted == (HandleSubmit \/ IngestDone) /\ lastOp'.op = "accept"

\* the attachment of the submission the step accepted
AcceptedFile ==
    IF subs[lastOp'.sub].pc = "ingest" THEN subs[lastOp'.sub].file0
    ELSE selectedFile

\* the text the user had typed for it
AcceptedText ==
    IF subs[lastOp'.sub].pc = "ingest" THEN subs[lastOp'.sub].userMessage.content
    ELSE input

\* C16: when the accepted submit carries a pdf or an image, the request made
\* to the strategy of the mode holds the payload { data: base64 of the file,
\* mimeType: its type } together with the prompt.
C16_PayloadTransmitted ==
    [][Accepted /\ AcceptedFile # NoFile
               /\ (Ext(AcceptedFile) = "pdf" \/ IsImage(AcceptedFile)) =>
        LET request == subs'[lastOp'.sub].request
        IN  /\ request.api # ""
            /\ request.prompt = AcceptedText
            /\ request.payload = [data |-> <<"base64 of", AcceptedFile.name>>,
                                   mimeType |-> AcceptedFile.type]
      ]_vars

\* x occurs in p between the positions from and to
Occurs(p, x, from, to) ==
    \E a \in from .. (to + 1) :
        /\ a + Len(x) - 1 <= to
        /\ SubSeq(p, a, a + Len(x) - 1) = x

\* the attachment is one whose text is extracted
Extracted(f) ==
    /\ f # NoFile
    /\ ~IsImage(f)
    /\ Ext(f) \in {"docx", "txt"}

\* C17 as claimed: for a docx or txt attachment with extracted text E and
\* typed text T the prompt holds "Document Content:", E, "User Query:" and T
\* in this order; with no attachment or one of another type it is T alone.
C17_PromptComposition ==
    [][Accepted =>
        LET sub == subs'[lastOp'.sub]
            p == sub.request.prompt
        IN  IF Extracted(AcceptedFile)
            THEN \E d \in DOMAIN p : \E q \in DOMAIN p :
                    /\ d < q
                    /\ p[d] = DocumentContent
                    /\ p[q] = UserQuery
                    /\ Occurs(p, sub.extractedText, d + 1, q - 1)
                    /\ Occurs(p, AcceptedText, q + 1, Len(p))
            ELSE p = AcceptedText
      ]_vars

\* C17 as amended: when the extracted text E is not empty the prompt is
\* "Document Content:", E, "User Query:" and then T, or the sentence
\* "Analyze this document." when T is empty; when E is empty, and with no
\* attachment or one of another type, the prompt is T alone.
C17_PromptCompositionAmended ==
    [][Accepted =>
        LET sub == subs'[lastOp'.sub]
            p == sub.request.prompt
            E == sub.extractedText
            T == AcceptedText
        IN  /\ ~Extracted(AcceptedFile) => E = <<>>
            /\ IF E # <<>>
               THEN /\ Len(p) = Len(E) + 2 + (IF T = <<>> THEN 1 ELSE Len(T))
                    /\ p[1] = DocumentContent
                    /\ SubSeq(p, 2, Len(E) + 1) = E
                    /\ p[Len(E) + 2] = UserQuery
                    /\ SubSeq(p, Len(E) + 3, Len(p)) =
                          IF T = <<>> THEN <<"Analyze this document.">> ELSE T
               ELSE p = T
      ]_vars

\* notes.TXT with the text "B5" was submitted without a typed text
C17_Witness ==
    \E s \in Subs :
        /\ subs[s].pc = "stream"
        /\ subs[s].extractedText = Budget
        /\ subs[s].updatedMessages2[1].content = <<>>
        /\ subs[s].request.prompt =
              <<"Document Content:\n", "B", "5", "\n\nUser Query: ",
                "Analyze this document.">>

\* C18: the ids of the messages of the transcript are pairwise distinct,
\* whatever non-decreasing values the clock returns to the submits.
C18_IdsDistinct ==
    \A i \in DOMAIN messages : \A j \in DOMAIN messages :
        i # j => messages[i].id # messages[j].id

\* the message has its final content: a user message, or an assistant
\* message after the final or the error update of its submission
Finalized(m) ==
    /\ ~Pending(m)
    /\ \A s \in Subs : subs[s].pc = "stream" => subs[s].aiMessageId # m.id

\* C19: a finalized message stays in the transcript with the same content,
\* role and pending flag in every step, unless the step is deleteMessage of
\* its id or newSession.
C19_FinalizedImmutable ==
    [][\A i \in DOMAIN messages :
          Finalized(messages[i]) =>
              \/ \E j \in DOMAIN messages' :
                    /\ messages'[j].id = messages[i].id
                    /\ messages'[j].content = messages[i].content
                    /\ messages'[j].role = messages[i].role
                    /\ Pending(messages'[j]) = Pending(messages[i])
              \/ HandleDeleteMessage /\ lastOp'.id = messages[i].id
              \/ HandleNewChat
      ]_vars

\* C20: in every reachable state at most one recorder is recording on a
\* live microphone stream, also when the button is pressed again before an
\* earlier microphone request has been answered.
C20_OneRecordingSession == Cardinality(Running) <= 1

\* voice capture is idle and every stop event has been handled
VoiceIdle ==
    /\ ~voice.isRecording
    /\ voice.requests = 0
    /\ \A i \in DOMAIN voice.recorders : voice.recorders[i].state # "stopped"

\* C21: once voice capture is back to idle and the stop events have been
\* handled, no microphone stream that was acquired is still live.
C21_MicrophoneReleased ==
    VoiceIdle => \A i \in DOMAIN voice.recorders :
                    voice.recorders[i].tracks = "ended"

\* the step ended a transcription without a text: speech2txt rejected, or
\* the provider client was missing when the recording stopped
TranscriptionFailure ==
    TranscribeFailed \/ (RecorderOnStop /\ ~puter)

\* C22 as claimed: a transcription that succeeds with the text t turns the
\* draft d into d + " " + t when d is not empty and into t when it is; a
\* failed one shows an error and leaves the draft; the transcript is
\* unchanged in both cases.
C22_TranscriptionAppends ==
    /\ [][TranscribeDone =>
            /\ input' = IF input # <<>> THEN input \o <<" ">> \o voice'.heard
                         ELSE voice'.heard
            /\ messages' = messages]_vars
    /\ [][TranscriptionFailure =>
            /\ voice'.alert = "Failed to transcribe audio."
            /\ input' = input
            /\ messages' = messages]_vars

\* C22 as amended: the draft is extended as claimed when the returned text
\* is not empty; a success without text leaves the draft as it is.
C22_TranscriptionAppendsAmended ==
    /\ [][TranscribeDone =>
            /\ input' = IF voice'.heard = <<>> THEN input
                         ELSE IF input # <<>>
                              THEN input \o <<" ">> \o voice'.heard
                              ELSE voice'.heard
            /\ messages' = messages]_vars
    /\ [][TranscriptionFailure =>
            /\ voice'.alert = "Failed to transcribe audio."
            /\ input' = input
            /\ messages' = messages]_vars

\* the text "v" was transcribed into the draft "Hello"
C22_Witness ==
    /\ voice.heard = <<"v">>
    /\ input = <<"H", "e", "l", "l", "o", " ", "v">>

\* C23: the Transcript screen is shown only under the identity held in
\* localStorage; a successful sign-in stores the identity and shows the
\* screen under it, and sign-out removes it and shows the Sign-In screen.
C23_StoredIdentityGates ==
    /\ [](Mounted => app.stored = app.user /\ app.stored \in Users)
    /\ [][SignInSucceeded =>
            /\ app'.stored \in Users
            /\ app'.user = app'.stored
            /\ app.user = NoUser => load'.pc = IF puter THEN "reading" ELSE "done"]_vars
    /\ [][HandleLogout => app'.stored = NoUser /\ app'.user = NoUser]_vars
    /\ [][app'.user # app.user => SignInSucceeded \/ HandleLogout]_vars

\* signed in again, under another identity, after a sign-out
C23_Witness ==
    /\ app.user = "bob"
    /\ app.stored = "bob"
    /\ app.attempts = 1

\* a sign-in attempt ends in failure
SignInFailure ==
    \/ SignInNoUsername
    \/ SignInRejected
    \/ HandlePuterSignIn /\ ~puter

\* C24: a sign-in attempt that fails (puter missing, signIn rejects, or it
\* resolves without a username) leaves the stored identity and the screen
\* as they were, hence absent and the Sign-In screen when the attempt is one
\* of the Sign-In screen shown, and sets the inline error; the next click
\* with puter present clears the error and starts an attempt that can
\* succeed.
C24_FailedSignInRetryable ==
    /\ [][SignInFailure =>
            /\ app'.stored = app.stored
            /\ app'.user = app.user
            /\ ~Mounted /\ app'.orphans = app.orphans =>
                   /\ app'.stored = NoUser
                   /\ app'.user = NoUser
                   /\ app'.error # ""]_vars
    /\ [][HandlePuterSignIn /\ puter =>
            app'.error = "" /\ app'.pending = app.pending + 1]_vars
    /\ [](~Mounted /\ app.attempts < MaxAttempts => ENABLED HandlePuterSignIn)
    /\ [](~Mounted /\ app.pending > 0 => ENABLED SignInSucceeded)

\* one attempt has failed and the click of the next has cleared its error
C24_Witness ==
    /\ ~Mounted
    /\ app.failures = 1
    /\ app.attempts = 2
    /\ app.pending = 1
    /\ app.orphans = 0
    /\ app.error = ""

\* an update applied for an in-flight submission
SubmissionUpdate == StreamChunk \/ StreamEnd \/ StrategyFailure

\* C25: an update applied for an in-flight submission (a chunk, the final
\* result or the error sentence) changes only the assistant message of that
\* submission: the other messages of the transcript are the same, in the
\* same order, before and after, and none is added back.
C25_UpdateTouchesOwnMessage ==
    [][SubmissionUpdate =>
          FilterOut(messages', lastOp'.id) = FilterOut(messages, lastOp'.id)
      ]_vars

\* C27: no transcript handed to a persistence write contains a pending
\* message.
C27_NoPendingPersisted ==
    \A w \in DOMAIN writes :
        ParsesToArray(writes[w]) =>
            \A i \in DOMAIN Parsed(writes[w]) : ~Pending(Parsed(writes[w])[i])

\* C26: isLoading is true in every state between the acceptance of a
\* submission and its final or error update, also when a voice
\* transcription finishes meanwhile, and false once the submission has
\* ended.
C26_LoadingWhileInFlight ==
    /\ [](\A s \in Subs : subs[s].pc = "stream" => isLoading)
    /\ [][StreamEnd \/ StrategyFailure => ~isLoading']_vars

\* C28: after the sign-out no persistence write is issued: a submission in
\* flight at the sign-out issues none when its stream completes or fails.
C28_NoWriteAfterLogout ==
    [][~Mounted => Len(writes') <= Len(writes)]_vars

====
